---------------------------- MODULE Spec2Model ----------------------------
(***************************************************************************)
(* cargo-depgraph, src/graph.rs: the dependency graph builder              *)
(* (get_dep_graph), the classification pass (update_dep_info /             *)
(* update_node) and the transitive reduction (dedup_transitive_deps).      *)
(*                                                                         *)
(* The graph is petgraph's Graph<Package, DepInfo, u16>: a vector of nodes *)
(* and a vector of edges, every edge linked into the outgoing list of its  *)
(* source and the incoming list of its target.  Indices are 1-based here   *)
(* and 0 stands for EdgeIndex::end().                                      *)
(***************************************************************************)
EXTENDS Integers, Sequences, FiniteSets, TLC

VARIABLES
    metadata,        \* cargo_metadata::Metadata handed to get_dep_graph
    config,          \* cli::Config
    pc,              \* position of the program
    err,             \* message of the error returned or of the panic
    nodes,           \* DepGraph: the node vector
    edges,           \* DepGraph: the edge vector
    node_indices,    \* DepGraphBuilder.node_indices (0: no entry)
    deps_add_queue,  \* DepGraphBuilder.deps_add_queue
    packages,        \* DepGraphBuilder.packages (0: None, taken)
    cursor,          \* position of the running for loop
    stack,           \* call frames of update_node, innermost last
    walker,          \* dedup_transitive_deps: the detached outgoing walker
    pass,            \* number of update_dep_info passes started
    snap             \* the graph as it was when the running phase started

vars == <<metadata, config, pc, err, nodes, edges, node_indices, deps_add_queue,
          packages, cursor, stack, walker, pass, snap>>

-----------------------------------------------------------------------------
(* Bounds *)

NPkg == 4
MaxStack == 3
MaxPasses == 2

(* DepGraph = DiGraph<Package, DepInfo, u16>: petgraph panics when an index *)
(* would reach u16::MAX.                                                    *)
IxMax == 65535

PkgIds == 1 .. NPkg
END == 0
\* Option<T>: None, or Some(x) with x = opt[1]
None == <<>>
Some(x) == <<x>>

-----------------------------------------------------------------------------
(* dep_info.rs / package.rs / cli.rs are not among the sources; these      *)
(* definitions follow the specification's Dependency-Kind Model.           *)

MetaDepKind == {"normal", "build", "dev"}
DepKind == {"Normal", "Build", "Dev"}

\* impl From<MetaDepKind> for DepKind
KindInto(k) ==
    CASE k = "normal" -> "Normal"
      [] k = "build"  -> "Build"
      [] k = "dev"    -> "Dev"

\* Normal > BuildTime > Development
Rank(k) ==
    CASE k = "Normal" -> 3
      [] k = "Build"  -> 2
      [] k = "Dev"    -> 1
      [] OTHER        -> 0

LeastRestrictive(a, b) == IF Rank(a) >= Rank(b) THEN a ELSE b

\* DepKind::combine_incoming(&mut self, other)
combine_incoming(self, other) == LeastRestrictive(self, other)

\* DepKind::update_outgoing(&mut self, node_kind)
update_outgoing(self, node_kind) == LeastRestrictive(self, node_kind)

\* DepInfo::default(): the placeholder a non-workspace package carries until
\* update_node assigns its classification.
DepInfoDefault == [kind |-> "Unset", is_target_dep |-> FALSE, visited |-> FALSE]

\* Package::new(pkg, is_ws_member)
PackageNew(pkg, is_ws_member) ==
    [id |-> pkg, dep_info |-> IF is_ws_member THEN None ELSE Some(DepInfoDefault)]

\* Package::dep_kind()
dep_kind(package) ==
    IF package.dep_info = None THEN "Normal" ELSE package.dep_info[1].kind

-----------------------------------------------------------------------------
(* petgraph::Graph, as graph.rs uses it *)

\* Graph::add_node
AddNode(ns, weight) ==
    Append(ns, [weight |-> weight, next_out |-> END, next_in |-> END])

\* Graph::add_edge: the new edge becomes the head of both lists
AddEdgeNodes(ns, es, a, b) ==
    [n \in 1 .. Len(ns) |->
        [ns[n] EXCEPT !.next_out = IF n = a THEN Len(es) + 1 ELSE @,
                      !.next_in  = IF n = b THEN Len(es) + 1 ELSE @]]

AddEdgeEdges(ns, es, a, b, weight) ==
    Append(es, [src |-> a, dst |-> b, next_out |-> ns[a].next_out,
                next_in |-> ns[b].next_in, weight |-> weight])

\* Graph::change_edge_links: in the outgoing list of a and the incoming list
\* of b, the link that names e is replaced
RelinkNodes(ns, a, b, e, nextOut, nextIn) ==
    [n \in 1 .. Len(ns) |->
        [ns[n] EXCEPT !.next_out = IF n = a /\ @ = e THEN nextOut ELSE @,
                      !.next_in  = IF n = b /\ @ = e THEN nextIn ELSE @]]

RelinkEdges(es, a, b, e, nextOut, nextIn) ==
    [x \in 1 .. Len(es) |->
        [es[x] EXCEPT !.next_out = IF es[x].src = a /\ @ = e THEN nextOut ELSE @,
                      !.next_in  = IF es[x].dst = b /\ @ = e THEN nextIn ELSE @]]

\* Graph::remove_edge: unlink e, then swap_remove it: the last edge takes
\* index e and the links that named the last index are rewritten
RemoveEdgeNodes(ns, es, e) ==
    LET last == Len(es)
        n1 == RelinkNodes(ns, es[e].src, es[e].dst, e, es[e].next_out, es[e].next_in)
        e1 == RelinkEdges(es, es[e].src, es[e].dst, e, es[e].next_out, es[e].next_in)
    IN  IF e = last THEN n1
        ELSE RelinkNodes(n1, e1[last].src, e1[last].dst, last, e, e)

RemoveEdgeEdges(es, e) ==
    LET last == Len(es)
        e1 == RelinkEdges(es, es[e].src, es[e].dst, e, es[e].next_out, es[e].next_in)
        e2 == IF e = last THEN e1
              ELSE RelinkEdges(e1, e1[last].src, e1[last].dst, last, e, e)
    IN  [x \in 1 .. last - 1 |-> IF x = e THEN e2[last] ELSE e2[x]]

\* graph.neighbors_directed(n, Direction::Incoming).count()
InDegree(es, n) == Cardinality({x \in 1 .. Len(es) : es[x].dst = n})

-----------------------------------------------------------------------------
(* Graph builder *)

\* skip_dep with the target filter forgotten
skip_dep_NoTarget(cfg, info) ==
    \/ (~cfg.normal_deps /\ info.kind = "normal")
    \/ (~cfg.build_deps /\ info.kind = "build")
    \/ (~cfg.dev_deps /\ info.kind = "dev")

\* skip_dep(config, info)
skip_dep(cfg, info) ==
    \/ (~cfg.normal_deps /\ info.kind = "normal")
    \/ (~cfg.build_deps /\ info.kind = "build")
    \/ (~cfg.dev_deps /\ info.kind = "dev")
    \/ (~cfg.target_deps /\ info.target)

\* pop_package: the position of the first record of pkg_id still present
\* (0: none); the caller takes it
pop_package(pkgs, pkg_id) ==
    LET hits == {k \in 1 .. Len(pkgs) : pkgs[k] = pkg_id}
    IN  IF hits = {} THEN 0 ELSE CHOOSE k \in hits : \A j \in hits : k <= j

Take(pkgs, k) == [pkgs EXCEPT ![k] = 0]

\* the inner loop of add_dependencies: one edge per dep_kinds entry that is
\* not skipped
RECURSIVE AddKindEdges(_, _, _, _, _)
AddKindEdges(b, cfg, parent_idx, child_idx, kinds) ==
    IF kinds = <<>> \/ b.status # "ok" THEN b
    ELSE LET info == Head(kinds)
             w == [kind |-> KindInto(info.kind), is_target_dep |-> info.target,
                   visited |-> FALSE]
         IN  IF skip_dep(cfg, info)
             THEN AddKindEdges(b, cfg, parent_idx, child_idx, Tail(kinds))
             ELSE IF Len(b.edges) >= IxMax
             THEN [b EXCEPT !.status = "panic", !.err = "edge index overflow"]
             ELSE AddKindEdges(
                     [b EXCEPT !.nodes = AddEdgeNodes(b.nodes, b.edges, parent_idx, child_idx),
                               !.edges = AddEdgeEdges(b.nodes, b.edges, parent_idx, child_idx, w)],
                     cfg, parent_idx, child_idx, Tail(kinds))

\* the for dep in &resolve_node.deps loop of add_dependencies
RECURSIVE AddDeps(_, _, _, _)
AddDeps(b, cfg, parent_idx, deps) ==
    IF deps = <<>> \/ b.status # "ok" THEN b
    ELSE LET dep == Head(deps)
             allSkipped == \A k \in 1 .. Len(dep.dep_kinds) : skip_dep(cfg, dep.dep_kinds[k])
             known == b.node_indices[dep.pkg] # 0
             at == pop_package(b.packages, dep.pkg)
         IN  IF allSkipped THEN AddDeps(b, cfg, parent_idx, Tail(deps))
             ELSE IF known
             THEN AddDeps(AddKindEdges(b, cfg, parent_idx, b.node_indices[dep.pkg],
                                       dep.dep_kinds),
                          cfg, parent_idx, Tail(deps))
             ELSE IF at = 0
             THEN [b EXCEPT !.status = "panic",
                            !.err = "called Option::unwrap() on a None value"]
             ELSE IF Len(b.nodes) >= IxMax
             THEN [b EXCEPT !.status = "panic", !.err = "node index overflow"]
             ELSE LET b1 == [b EXCEPT
                                !.packages = Take(@, at),
                                !.nodes = AddNode(@, PackageNew(dep.pkg, FALSE)),
                                !.deps_add_queue = Append(@, dep.pkg),
                                !.node_indices = [@ EXCEPT ![dep.pkg] = Len(b.nodes) + 1]]
                  IN  AddDeps(AddKindEdges(b1, cfg, parent_idx, Len(b.nodes) + 1,
                                           dep.dep_kinds),
                              cfg, parent_idx, Tail(deps))

\* resolve.nodes.iter().find(|n| n.id == pkg_id): its position, 0 if none
FindResolve(resolve, pkg_id) ==
    LET hits == {k \in 1 .. Len(resolve) : resolve[k].id = pkg_id}
    IN  IF hits = {} THEN 0 ELSE CHOOSE k \in hits : \A j \in hits : k <= j


\* DepGraphBuilder, as a record, for the loops above
Builder ==
    [nodes |-> nodes, edges |-> edges, node_indices |-> node_indices,
     deps_add_queue |-> deps_add_queue, packages |-> packages,
     status |-> "ok", err |-> ""]

\* DepGraphBuilder::new: fails when metadata.resolve is None
New ==
    /\ pc = "new"
    /\ IF metadata.resolve = None
       THEN /\ pc' = "error"
            /\ err' = "Couldn't obtain dependency graph. Your cargo version may be too old."
            /\ UNCHANGED packages
       ELSE /\ pc' = "add_workspace_members"
            /\ packages' = metadata.packages
            /\ UNCHANGED err
    /\ cursor' = 1
    /\ UNCHANGED <<metadata, config, nodes, edges, node_indices, deps_add_queue,
                   stack, walker, pass, snap>>

\* DepGraphBuilder::add_workspace_members: one turn of its loop
AddWorkspaceMember ==
    /\ pc = "add_workspace_members"
    /\ IF cursor > Len(metadata.workspace_members)
       THEN /\ pc' = "add_dependencies"
            /\ UNCHANGED <<err, nodes, node_indices, deps_add_queue, packages, cursor>>
       ELSE LET pkg_id == metadata.workspace_members[cursor]
                at == pop_package(packages, pkg_id)
            IN  IF at = 0
                THEN /\ pc' = "error"
                     /\ err' = "package not found in packages"
                     /\ UNCHANGED <<nodes, node_indices, deps_add_queue, packages, cursor>>
                ELSE IF Len(nodes) >= IxMax \/ node_indices[pkg_id] # 0
                THEN /\ pc' = "panic"
                     /\ err' = "assertion failed"
                     /\ UNCHANGED <<nodes, node_indices, deps_add_queue, packages, cursor>>
                ELSE /\ packages' = Take(packages, at)
                     /\ nodes' = AddNode(nodes, PackageNew(pkg_id, TRUE))
                     /\ deps_add_queue' = Append(deps_add_queue, pkg_id)
                     /\ node_indices' = [node_indices EXCEPT ![pkg_id] = Len(nodes) + 1]
                     /\ cursor' = cursor + 1
                     /\ UNCHANGED <<pc, err>>
    /\ UNCHANGED <<metadata, config, edges, stack, walker, pass, snap>>

\* DepGraphBuilder::add_dependencies: one turn of its while loop, or its end
\* (get_dep_graph returns Ok(builder.graph))
AddDependencies ==
    /\ pc = "add_dependencies"
    /\ IF deps_add_queue = <<>>
       THEN /\ pc' = "built"
            /\ UNCHANGED <<err, nodes, edges, node_indices, deps_add_queue, packages>>
       ELSE LET pkg_id == Head(deps_add_queue)
                parent_idx == node_indices[pkg_id]
                at == FindResolve(metadata.resolve[1], pkg_id)
                b0 == [Builder EXCEPT !.deps_add_queue = Tail(deps_add_queue)]
                resolve == metadata.resolve[1]
                b == AddDeps(b0, config, parent_idx, resolve[at].deps)
            IN  IF parent_idx = 0
                THEN /\ pc' = "error"
                     /\ err' = "trying to add deps of package that's not in the graph"
                     /\ deps_add_queue' = Tail(deps_add_queue)
                     /\ UNCHANGED <<nodes, edges, node_indices, packages>>
                ELSE IF at = 0
                THEN /\ pc' = "error"
                     /\ err' = "package not found in resolve"
                     /\ deps_add_queue' = Tail(deps_add_queue)
                     /\ UNCHANGED <<nodes, edges, node_indices, packages>>
                ELSE /\ pc' = IF b.status = "ok" THEN pc ELSE b.status
                     /\ err' = b.err
                     /\ nodes' = b.nodes
                     /\ edges' = b.edges
                     /\ node_indices' = b.node_indices
                     /\ deps_add_queue' = b.deps_add_queue
                     /\ packages' = b.packages
    /\ UNCHANGED <<metadata, config, cursor, stack, walker, pass, snap>>

-----------------------------------------------------------------------------
(* Classification pass *)

Graph == [nodes |-> nodes, edges |-> edges]

IsEdge(es, e) == e \in 1 .. Len(es)

\* the workspace member's outgoing edges left as they are
MarkOutgoing_Nothing(es, idx) == es

\* the outgoing loops of update_node for a workspace member: every outgoing
\* edge becomes visited
MarkOutgoing(es, idx) ==
    [x \in 1 .. Len(es) |->
        IF es[x].src = idx THEN [es[x] EXCEPT !.weight.visited = TRUE] ELSE es[x]]

\* the outgoing loop of update_node for a classified node
PushOutgoing(es, idx, node_info) ==
    [x \in 1 .. Len(es) |->
        IF es[x].src = idx
        THEN [es[x] EXCEPT
                !.weight.visited = TRUE,
                !.weight.is_target_dep = @ \/ node_info.is_target_dep,
                !.weight.kind = update_outgoing(@, node_info.kind)]
        ELSE es[x]]

\* the incoming loop with |= where the code has &=
CombineInto_Or(info, edge_info) ==
    IF info = None THEN Some(edge_info)
    ELSE Some([info[1] EXCEPT !.is_target_dep = @ \/ edge_info.is_target_dep,
                              !.kind = combine_incoming(@, edge_info.kind)])

\* the body of the incoming loop after the recursive call
CombineInto(info, edge_info) ==
    IF info = None THEN Some(edge_info)
    ELSE Some([info[1] EXCEPT !.is_target_dep = @ /\ edge_info.is_target_dep,
                              !.kind = combine_incoming(@, edge_info.kind)])

Frame(idx) ==
    [node |-> idx, next |-> nodes[idx].next_in, info |-> None, called |-> FALSE]

Top == stack[Len(stack)]
Pop == SubSeq(stack, 1, Len(stack) - 1)

\* the caller (main) runs update_dep_info over the built graph, and may run
\* it again over the graph an earlier pass has finished
StartPass ==
    /\ pc \in {"built", "propagated"}
    /\ pass < MaxPasses
    /\ pass' = pass + 1
    /\ pc' = "update"
    /\ cursor' = 1
    /\ snap' = Graph
    /\ UNCHANGED <<metadata, config, err, nodes, edges, node_indices, deps_add_queue,
                   packages, stack, walker>>

\* update_dep_info: one turn of its loop calls update_node(graph, idx)
UpdateDepInfo ==
    /\ pc = "update"
    /\ stack = <<>>
    /\ IF cursor > Len(nodes)
       THEN /\ pc' = "propagated"
            /\ UNCHANGED <<cursor, stack>>
       ELSE /\ stack' = <<Frame(cursor)>>
            /\ cursor' = cursor + 1
            /\ UNCHANGED pc
    /\ UNCHANGED <<metadata, config, err, nodes, edges, node_indices, deps_add_queue,
                   packages, walker, pass, snap>>

\* update_node on a workspace member
UpdateMember ==
    /\ pc = "update"
    /\ stack # <<>>
    /\ nodes[Top.node].weight.dep_info = None
    /\ edges' = MarkOutgoing(edges, Top.node)
    /\ stack' = Pop
    /\ UNCHANGED <<metadata, config, pc, err, nodes, node_indices, deps_add_queue,
                   packages, cursor, walker, pass, snap>>

\* update_node passing over an incoming edge that is not visited, where the
\* code recurses into its source
UpdateRecurse_Skip ==
    /\ pc = "update"
    /\ stack # <<>>
    /\ nodes[Top.node].weight.dep_info # None
    /\ IsEdge(edges, Top.next)
    /\ ~edges[Top.next].weight.visited
    /\ stack' = [stack EXCEPT ![Len(stack)].next = edges[Top.next].next_in]
    /\ UNCHANGED <<metadata, config, pc, err, nodes, edges, node_indices,
                   deps_add_queue, packages, cursor, walker, pass, snap>>

\* update_node: the incoming edge at hand is not visited; recurse into its
\* source.  A call the stack has no room for overflows it.
UpdateRecurse ==
    /\ pc = "update"
    /\ stack # <<>>
    /\ nodes[Top.node].weight.dep_info # None
    /\ IsEdge(edges, Top.next)
    /\ ~Top.called
    /\ ~edges[Top.next].weight.visited
    /\ IF Len(stack) >= MaxStack
       THEN /\ pc' = "overflow"
            /\ err' = "stack overflow"
            /\ UNCHANGED stack
       ELSE /\ stack' = Append([stack EXCEPT ![Len(stack)].called = TRUE],
                               Frame(edges[Top.next].src))
            /\ UNCHANGED <<pc, err>>
    /\ UNCHANGED <<metadata, config, nodes, edges, node_indices, deps_add_queue,
                   packages, cursor, walker, pass, snap>>

\* update_node: the rest of one turn of the incoming loop
UpdateCombine ==
    /\ pc = "update"
    /\ stack # <<>>
    /\ nodes[Top.node].weight.dep_info # None
    /\ IsEdge(edges, Top.next)
    /\ Top.called \/ edges[Top.next].weight.visited
    /\ LET edge_info == edges[Top.next].weight
       IN  IF ~edge_info.visited
           THEN /\ pc' = "panic"
                /\ err' = "assertion failed: edge_info.visited"
                /\ UNCHANGED stack
           ELSE /\ stack' = [stack EXCEPT ![Len(stack)] =
                                [@ EXCEPT !.info = CombineInto(@, edge_info),
                                          !.next = edges[Top.next].next_in,
                                          !.called = FALSE]]
                /\ UNCHANGED <<pc, err>>
    /\ UNCHANGED <<metadata, config, nodes, edges, node_indices, deps_add_queue,
                   packages, cursor, walker, pass, snap>>

\* update_node: after the incoming loop
UpdateFinish ==
    /\ pc = "update"
    /\ stack # <<>>
    /\ nodes[Top.node].weight.dep_info # None
    /\ ~IsEdge(edges, Top.next)
    /\ IF Top.info = None
       THEN /\ pc' = "panic"
            /\ err' = "non-workspace members to have at least one incoming edge"
            /\ UNCHANGED <<nodes, edges, stack>>
       ELSE /\ nodes' = [nodes EXCEPT ![Top.node].weight.dep_info = Top.info]
            /\ edges' = PushOutgoing(edges, Top.node, Top.info[1])
            /\ stack' = Pop
            /\ UNCHANGED <<pc, err>>
    /\ UNCHANGED <<metadata, config, node_indices, deps_add_queue, packages, cursor,
                   walker, pass, snap>>

-----------------------------------------------------------------------------
(* Transitive reduction *)

Range(q) == {q[k] : k \in 1 .. Len(q)}

\* graph.neighbors_directed(n, Direction::Outgoing), as a set
Successors(es, n) == {es[x].dst : x \in {y \in 1 .. Len(es) : es[y].src = n}}

\* petgraph::algo::all_simple_paths(graph, from, to, 1, None): the paths its
\* depth-first walk yields once visited is the walk's stack.  max_length is
\* node_count - 1 and min_length is min_intermediate_nodes + 1 = 2.
RECURSIVE PathsFrom(_, _, _, _)
PathsFrom(ns, es, to, visited) ==
    LET children == Successors(es, visited[Len(visited)])
        hit == IF to \in children /\ Len(visited) >= 2
               THEN {Append(visited, to)} ELSE {}
    IN  IF Len(visited) < Len(ns) - 1
        THEN hit \cup UNION {PathsFrom(ns, es, to, Append(visited, c)) :
                                c \in children \ ({to} \cup Range(visited))}
        ELSE hit

\* all_simple_paths called with min_intermediate_nodes = 0: the direct edge
\* is a path too
all_simple_paths_Min0(ns, es, from, to) ==
    PathsFrom(ns, es, to, <<from>>)
        \cup (IF to \in Successors(es, from) THEN {<<from, to>>} ELSE {})

all_simple_paths(ns, es, from, to) == PathsFrom(ns, es, to, <<from>>)

\* the test with the comparison of kinds left out: any path will do
SameKindPath_AnyPath(ns, es, idx, node_idx) ==
    all_simple_paths(ns, es, idx, node_idx) # {}

\* paths.iter().any(|path| path.iter().all(|&i| graph[i].dep_kind() == node_kind))
SameKindPath(ns, es, idx, node_idx) ==
    LET node_kind == dep_kind(ns[node_idx].weight)
    IN  \E path \in all_simple_paths(ns, es, idx, node_idx) :
            \A k \in 1 .. Len(path) : dep_kind(ns[path[k]].weight) = node_kind

\* the caller (main) runs dedup_transitive_deps after update_dep_info
StartDedup ==
    /\ pc = "propagated"
    /\ pc' = "dedup"
    /\ cursor' = 1
    /\ snap' = Graph
    /\ UNCHANGED <<metadata, config, err, nodes, edges, node_indices, deps_add_queue,
                   packages, stack, walker, pass>>

\* dedup_transitive_deps: one turn of the for loop detaches a walker over
\* the outgoing edges of idx
DedupNode ==
    /\ pc = "dedup"
    /\ IF cursor > Len(nodes)
       THEN /\ pc' = "done"
            /\ UNCHANGED walker
       ELSE /\ pc' = "dedup_edges"
            /\ walker' = nodes[cursor].next_out
    /\ UNCHANGED <<metadata, config, err, nodes, edges, node_indices, deps_add_queue,
                   packages, cursor, stack, pass, snap>>

\* dedup_transitive_deps: one turn of the while loop.  outgoing.next(graph)
\* reads the edge the walker names; there being none ends the loop.
DedupEdge ==
    /\ pc = "dedup_edges"
    /\ IF ~IsEdge(edges, walker)
       THEN /\ pc' = "dedup"
            /\ cursor' = cursor + 1
            /\ UNCHANGED <<nodes, edges, walker>>
       ELSE LET edge_idx == walker
                node_idx == edges[walker].dst
            IN  IF InDegree(edges, node_idx) < 2
                THEN \* break
                     /\ pc' = "dedup"
                     /\ cursor' = cursor + 1
                     /\ walker' = edges[edge_idx].next_out
                     /\ UNCHANGED <<nodes, edges>>
                ELSE /\ walker' = edges[edge_idx].next_out
                     /\ IF SameKindPath(nodes, edges, cursor, node_idx)
                        THEN /\ nodes' = RemoveEdgeNodes(nodes, edges, edge_idx)
                             /\ edges' = RemoveEdgeEdges(edges, edge_idx)
                        ELSE UNCHANGED <<nodes, edges>>
                     /\ UNCHANGED <<pc, cursor>>
    /\ UNCHANGED <<metadata, config, err, node_indices, deps_add_queue, packages,
                   stack, pass, snap>>

-----------------------------------------------------------------------------
(* Inputs: what the metadata provider and the command line hand over *)

DK(kind, target) == [kind |-> kind, target |-> target]
Dep(pkg, kinds) == [pkg |-> pkg, dep_kinds |-> kinds]
Node(id, deps) == [id |-> id, deps |-> deps]

AllOn == [normal_deps |-> TRUE, build_deps |-> TRUE, dev_deps |-> TRUE,
          target_deps |-> TRUE]
Configs == [normal_deps : BOOLEAN, build_deps : BOOLEAN, dev_deps : BOOLEAN,
            target_deps : BOOLEAN]

AllPackages == [k \in 1 .. NPkg |-> k]

\* a dependency declaration, left out of the list when it has no kinds
Decl(pkg, kinds) == IF kinds = <<>> THEN <<>> ELSE <<Dep(pkg, kinds)>>

\* resolve nodes for packages 1 .. NPkg; those past Len(deps) depend on nothing
ResolveOf(deps) ==
    [k \in 1 .. NPkg |-> Node(k, IF k <= Len(deps) THEN deps[k] ELSE <<>>)]

Input(members, pkgs, resolve, cfg) ==
    [metadata |-> [workspace_members |-> members, packages |-> pkgs,
                   resolve |-> resolve],
     config |-> cfg]

Labels == {<<DK("normal", FALSE)>>, <<DK("normal", TRUE)>>,
           <<DK("build", TRUE)>>, <<DK("dev", FALSE)>>}
KindLists == Labels \cup {<<>>, <<DK("dev", TRUE), DK("normal", FALSE)>>}

\* three packages, 1 the workspace member: every shape of dependencies
\* between 2 and 3, both also reachable from 1, and 2 depending back on 1
TriangleInputs ==
    {Input(<<1>>, AllPackages,
           Some(ResolveOf(<<IF swap THEN Decl(3, rb) \o Decl(2, ra)
                                     ELSE Decl(2, ra) \o Decl(3, rb),
                            Decl(3, ab) \o Decl(1, ar),
                            Decl(2, ba)>>)),
           AllOn) :
        ra \in KindLists \ {<<>>}, rb \in KindLists, ab \in KindLists,
        ba \in {<<>>, <<DK("normal", FALSE)>>, <<DK("dev", TRUE)>>},
        ar \in {<<>>, <<DK("normal", FALSE)>>},
        swap \in BOOLEAN}

Perms3 == {<<2, 3, 4>>, <<2, 4, 3>>, <<3, 2, 4>>, <<3, 4, 2>>, <<4, 2, 3>>, <<4, 3, 2>>}
AllLabels == {<<DK(k, t)>> : k \in MetaDepKind, t \in BOOLEAN}

\* the diamond 1 -> 2, 1 -> 3, 2 -> 4, 3 -> 4, 1 -> 4, with or without
\* 2 -> 3: the four side edges carry one label, the direct edge 1 -> 4 its
\* own, and the dependencies of 1 come in any order
Diamond(side, direct, order, cross) ==
    Input(<<1>>, AllPackages,
          Some(ResolveOf(<<[k \in 1 .. 3 |->
                               Dep(order[k], IF order[k] = 4 THEN direct ELSE side)],
                           (IF cross THEN Decl(3, side) ELSE <<>>) \o Decl(4, side),
                           Decl(4, side)>>)),
          AllOn)

DiamondInputs ==
    {Diamond(side, direct, order, cross) :
        side \in AllLabels, direct \in AllLabels, order \in Perms3, cross \in BOOLEAN}

\* four packages, 3 and 4 depending on packages added before them (3 on 2,
\* 4 on 3), so that update_node recurses twice; 2 -> 4 closes a cycle
BackChainInputs ==
    {Input(<<1>>, AllPackages,
           Some(ResolveOf(<<Decl(2, r2) \o Decl(3, r3) \o Decl(4, r4),
                            Decl(4, c24),
                            Decl(2, c32),
                            Decl(3, c43)>>)),
           AllOn) :
        r2 \in Labels, r3 \in {<<>>, <<DK("normal", TRUE)>>}, r4 \in Labels,
        c43 \in Labels, c32 \in Labels, c24 \in {<<>>, <<DK("normal", FALSE)>>}}

\* two workspace members, each possibly a dependency of the other and of
\* package 3
TwoMemberInputs ==
    {Input(<<1, 2>>, AllPackages,
           Some(ResolveOf(<<Decl(2, m12) \o Decl(3, m13),
                            Decl(3, m23) \o Decl(1, m21),
                            Decl(2, c32)>>)),
           AllOn) :
        m12 \in {<<>>, <<DK("dev", TRUE)>>}, m13 \in Labels \cup {<<>>},
        m23 \in Labels, m21 \in {<<>>, <<DK("build", FALSE)>>},
        c32 \in {<<>>, <<DK("normal", TRUE)>>}}

BuildLists == {<<>>, <<DK("normal", FALSE)>>, <<DK("build", TRUE)>>,
               <<DK("dev", FALSE), DK("normal", TRUE)>>,
               <<DK("build", FALSE), DK("dev", TRUE)>>}

BuildResolves ==
    {ResolveOf(<<<<Dep(2, ra)>> \o Decl(3, rb),
                 <<Dep(3, ab)>>,
                 Decl(1, br)>>) :
        ra \in BuildLists,
        rb \in {<<>>, <<DK("dev", FALSE)>>, <<DK("normal", TRUE)>>},
        ab \in BuildLists \ {<<>>},
        br \in {<<>>, <<DK("normal", FALSE)>>}}

\* well-formed inputs under every filter configuration
BuildInputs ==
    {Input(<<1>>, AllPackages, Some(r), cfg) : r \in BuildResolves, cfg \in Configs}

WithoutAt(q, k) == SubSeq(q, 1, k - 1) \o SubSeq(q, k + 1, Len(q))

\* inputs that break the contract: a package record or a resolve entry is
\* missing, or the provider gave no resolve at all
MalformedInputs ==
    {Input(<<1>>, WithoutAt(AllPackages, k), Some(r), cfg) :
        r \in BuildResolves, k \in 1 .. 3, cfg \in {AllOn, [AllOn EXCEPT !.dev_deps = FALSE]}}
    \cup {Input(<<1>>, AllPackages, Some(WithoutAt(r, 2)), AllOn) : r \in BuildResolves}
    \cup {Input(<<1>>, AllPackages, None, AllOn)}

Inputs ==
    TriangleInputs \cup DiamondInputs \cup BackChainInputs \cup TwoMemberInputs
        \cup BuildInputs \cup MalformedInputs

-----------------------------------------------------------------------------

Init ==
    /\ \E in \in Inputs : metadata = in.metadata /\ config = in.config
    /\ pc = "new"
    /\ err = ""
    /\ nodes = <<>>
    /\ edges = <<>>
    /\ node_indices = [id \in PkgIds |-> 0]
    /\ deps_add_queue = <<>>
    /\ packages = <<>>
    /\ cursor = 1
    /\ stack = <<>>
    /\ walker = END
    /\ pass = 0
    /\ snap = [nodes |-> <<>>, edges |-> <<>>]

Next ==
    \/ New
    \/ AddWorkspaceMember
    \/ AddDependencies
    \/ StartPass
    \/ UpdateDepInfo
    \/ UpdateMember
    \/ UpdateRecurse
    \/ UpdateCombine
    \/ UpdateFinish
    \/ StartDedup
    \/ DedupNode
    \/ DedupEdge

Spec == Init /\ [][Next]_vars

-----------------------------------------------------------------------------
(* Vocabulary of the properties *)

Members == Range(metadata.workspace_members)
IsRoot(n) == nodes[n].weight.id \in Members
NodeIds == {nodes[n].weight.id : n \in 1 .. Len(nodes)}
NonRoots == {n \in 1 .. Len(nodes) : ~IsRoot(n)}
Classified(n) ==
    /\ nodes[n].weight.dep_info # None
    /\ nodes[n].weight.dep_info[1].kind \in DepKind
EdgesInto(es, n) == {x \in 1 .. Len(es) : es[x].dst = n}
EdgesBetween(es, a, b) == {x \in 1 .. Len(es) : es[x].src = a /\ es[x].dst = b}

\* the nodes a walk of one edge or more leads to from a node of S
RECURSIVE Closure(_, _)
Closure(es, S) ==
    LET more == S \cup UNION {Successors(es, n) : n \in S}
    IN  IF more = S THEN S ELSE Closure(es, more)

ReachPlus(es, a) == Closure(es, Successors(es, a))

\* the edges between packages that are not workspace members
InnerEdges ==
    SelectSeq(edges, LAMBDA e : ~IsRoot(e.src) /\ ~IsRoot(e.dst))

\* a dependency cycle among the packages that are not workspace members
NonRootCycle == \E n \in NonRoots : n \in ReachPlus(InnerEdges, n)

\* what a configuration admits, read off the option names
Admits(cfg, info) ==
    /\ info.kind = "normal" => cfg.normal_deps
    /\ info.kind = "build" => cfg.build_deps
    /\ info.kind = "dev" => cfg.dev_deps
    /\ info.target => cfg.target_deps

KindName == [normal |-> "Normal", build |-> "Build", dev |-> "Dev"]

ResolveNodes == IF metadata.resolve = None THEN <<>> ELSE metadata.resolve[1]
DepsOf(id) ==
    LET at == FindResolve(ResolveNodes, id)
    IN  IF at = 0 THEN <<>> ELSE ResolveNodes[at].deps
Referenced ==
    Members \cup UNION {{ResolveNodes[k].deps[i].pkg : i \in 1 .. Len(ResolveNodes[k].deps)} :
                          k \in 1 .. Len(ResolveNodes)}

\* every referenced identifier has a package record and a resolve entry
WellFormed ==
    /\ metadata.resolve # None
    /\ \A id \in Referenced :
          /\ id \in Range(metadata.packages)
          /\ FindResolve(ResolveNodes, id) # 0

AdmittedDeps(id) ==
    {DepsOf(id)[i].pkg : i \in {j \in 1 .. Len(DepsOf(id)) :
        \E k \in 1 .. Len(DepsOf(id)[j].dep_kinds) : Admits(config, DepsOf(id)[j].dep_kinds[k])}}

RECURSIVE ReachableIds(_)
ReachableIds(S) ==
    LET more == S \cup UNION {AdmittedDeps(id) : id \in S}
    IN  IF more = S THEN S ELSE ReachableIds(more)

\* the admitted (kind, target) pairs package p declares on package c that
\* carry kind and target flag t
DeclaredPairs(p, c, kind, t) ==
    {<<i, k>> \in (1 .. Len(DepsOf(p))) \X (1 .. 2) :
        /\ DepsOf(p)[i].pkg = c
        /\ k <= Len(DepsOf(p)[i].dep_kinds)
        /\ Admits(config, DepsOf(p)[i].dep_kinds[k])
        /\ KindName[DepsOf(p)[i].dep_kinds[k].kind] = kind
        /\ DepsOf(p)[i].dep_kinds[k].target = t}

BuiltEdges(p, c, kind, t) ==
    {x \in 1 .. Len(edges) :
        /\ nodes[edges[x].src].weight.id = p
        /\ nodes[edges[x].dst].weight.id = c
        /\ edges[x].weight.kind = kind
        /\ edges[x].weight.is_target_dep = t}

-----------------------------------------------------------------------------
(* C1: for a well-formed input and any filter configuration, construction  *)
(* does not fail, and the graph get_dep_graph returns has as nodes exactly *)
(* the workspace members and the packages reachable from them along        *)
(* dependencies with an admitted (kind, target) pair, each once, and       *)
(* between a package and each of its dependencies one edge per admitted    *)
(* pair, with that pair's kind and target flag and visited = false.        *)
C1_BuilderExact ==
    (WellFormed /\ pass = 0) =>
        /\ pc \notin {"error", "panic"}
        /\ pc = "built" =>
            /\ NodeIds = ReachableIds(Members)
            /\ Len(nodes) = Cardinality(ReachableIds(Members))
            /\ \A n \in 1 .. Len(nodes) :
                  (nodes[n].weight.dep_info = None) <=> IsRoot(n)
            /\ \A x \in 1 .. Len(edges) : ~edges[x].weight.visited
            /\ \A p \in NodeIds, c \in NodeIds, kind \in DepKind, t \in BOOLEAN :
                  Cardinality(BuiltEdges(p, c, kind, t))
                      = Cardinality(DeclaredPairs(p, c, kind, t))
            /\ \A x \in 1 .. Len(edges) : edges[x].weight.kind \in DepKind

\* a graph was returned where a filter dropped one pair of a dependency and
\* kept the other, and two parallel edges were built for another dependency
C1_Witness ==
    /\ WellFormed
    /\ pc = "built"
    /\ \E id \in NodeIds, i \in 1 .. 2 :
          /\ i <= Len(DepsOf(id))
          /\ Len(DepsOf(id)[i].dep_kinds) = 2
          /\ ~Admits(config, DepsOf(id)[i].dep_kinds[1])
          /\ Admits(config, DepsOf(id)[i].dep_kinds[2])
    /\ \E a, b \in 1 .. Len(nodes) : Cardinality(EdgesBetween(edges, a, b)) = 2

-----------------------------------------------------------------------------
\* construction has stopped on a dependency of a dequeued package that is
\* admitted, is not a node, and has no package record left
MissingRecordHit ==
    /\ pass = 0
    /\ pc \in {"error", "panic"}
    /\ \E n \in 1 .. Len(nodes) :
          /\ nodes[n].weight.id \notin Range(deps_add_queue)
          /\ \E id \in AdmittedDeps(nodes[n].weight.id) :
                node_indices[id] = 0 /\ id \notin Range(packages)

(* C2: when construction reaches a dependency that is not yet a node, has  *)
(* an admitted pair and has no package record, get_dep_graph returns an    *)
(* error value to its caller; the computation is not aborted.              *)
C2_MissingRecordIsError == MissingRecordHit => pc = "error"

-----------------------------------------------------------------------------
\* the pass is running, or has ended one way or another
InPass == pass >= 1 /\ pc \in {"update", "propagated", "overflow", "panic"}

(* C3: over a built graph with no dependency cycle among the packages that *)
(* are not workspace members, a pass of update_dep_info neither overflows  *)
(* the stack nor fails an assertion or expectation, and when it has ended  *)
(* every such package has a classification, every workspace member has     *)
(* none, and every edge is visited.                                        *)
C3_PassClassifies ==
    (InPass /\ ~NonRootCycle) =>
        /\ pc \notin {"overflow", "panic"}
        /\ pc = "propagated" =>
            /\ \A n \in NonRoots : Classified(n)
            /\ \A n \in 1 .. Len(nodes) : IsRoot(n) => nodes[n].weight.dep_info = None
            /\ \A x \in 1 .. Len(edges) : edges[x].weight.visited

\* a first pass has ended on a graph where a package has an incoming edge
\* from a package added after it (update_node had to recurse) and another
\* incoming edge
C3_Witness ==
    /\ pc = "propagated"
    /\ pass = 1
    /\ ~NonRootCycle
    /\ \E x \in 1 .. Len(edges) :
          /\ edges[x].src > edges[x].dst
          /\ ~IsRoot(edges[x].src)
          /\ ~IsRoot(edges[x].dst)
          /\ Cardinality(EdgesInto(edges, edges[x].dst)) >= 2

-----------------------------------------------------------------------------
\* the finalized target flag of edge x: the flag it was built with, or-ed
\* with the classification flag of its source unless that is a workspace
\* member (snap is the built graph during the first pass)
FinalizedTarget(x) ==
    \/ snap.edges[x].weight.is_target_dep
    \/ /\ ~IsRoot(edges[x].src)
       /\ nodes[edges[x].src].weight.dep_info[1].is_target_dep

(* C4: after the pass over a built graph without a cycle among non-member  *)
(* packages, a non-member package is classified target-specific exactly    *)
(* when every one of its incoming edges is finalized target-specific, and  *)
(* every edge carries its finalized flag.                                  *)
C4_TargetIsAnd ==
    (pc = "propagated" /\ pass = 1 /\ ~NonRootCycle) =>
        /\ \A n \in NonRoots :
              nodes[n].weight.dep_info[1].is_target_dep
                  <=> \A x \in EdgesInto(edges, n) : FinalizedTarget(x)
        /\ \A x \in 1 .. Len(edges) :
              edges[x].weight.is_target_dep <=> FinalizedTarget(x)

\* a package reached from a workspace member by two edges, one
\* target-specific and one not, ended not target-specific, and an edge built
\* without a target became target-specific through its classified source
C4_Witness ==
    /\ pc = "propagated"
    /\ pass = 1
    /\ ~NonRootCycle
    /\ \E n \in NonRoots : \E x, y \in EdgesInto(edges, n) :
          /\ IsRoot(edges[x].src) /\ edges[y].src = edges[x].src
          /\ snap.edges[x].weight.is_target_dep
          /\ ~snap.edges[y].weight.is_target_dep
          /\ ~nodes[n].weight.dep_info[1].is_target_dep
    /\ \E x \in 1 .. Len(edges) :
          /\ ~IsRoot(edges[x].src)
          /\ ~snap.edges[x].weight.is_target_dep
          /\ edges[x].weight.is_target_dep

-----------------------------------------------------------------------------
N(id) == node_indices[id]

(* C5: in the diamond 1 -> 2, 1 -> 3, 2 -> 4, 3 -> 4, 1 -> 4 with all five *)
(* edges of one kind and one target flag, whatever the kind and whatever   *)
(* the order of insertion, the pass followed by dedup_transitive_deps      *)
(* removes the direct edge 1 -> 4 and keeps 2 -> 4 and 3 -> 4.             *)
C5_DiamondPruned ==
    \A label \in AllLabels, order \in Perms3 :
        (pc = "done" /\ metadata = Diamond(label, label, order, FALSE).metadata) =>
            /\ EdgesBetween(edges, N(1), N(4)) = {}
            /\ EdgesBetween(edges, N(2), N(4)) # {}
            /\ EdgesBetween(edges, N(3), N(4)) # {}

(* C6, as claimed: in the diamond whose four side edges carry one kind and *)
(* whose direct edge 1 -> 4 carries another, the direct edge is still      *)
(* there after the pass and dedup_transitive_deps.                         *)
C6_DirectKept ==
    \A side \in AllLabels, direct \in AllLabels, order \in Perms3 :
        (/\ pc = "done"
         /\ side[1].kind # direct[1].kind
         /\ metadata = Diamond(side, direct, order, FALSE).metadata)
            => EdgesBetween(edges, N(1), N(4)) # {}

(* C6, amended: in that diamond the direct edge 1 -> 4 is still there      *)
(* after the pass and dedup_transitive_deps when the kind of the four side *)
(* edges is not Normal.                                                    *)
C6_DirectKeptUnlessNormal ==
    \A side \in AllLabels, direct \in AllLabels, order \in Perms3 :
        (/\ pc = "done"
         /\ side[1].kind # direct[1].kind
         /\ side[1].kind # "normal"
         /\ metadata = Diamond(side, direct, order, FALSE).metadata)
            => EdgesBetween(edges, N(1), N(4)) # {}

\* the reduction has ended on such a diamond whose direct edge was the
\* first one examined, package 4 having the kind of the direct edge
C6_Witness ==
    /\ pc = "done"
    /\ \E side \in AllLabels, direct \in AllLabels :
          /\ side[1].kind = "dev"
          /\ direct[1].kind = "build"
          /\ metadata = Diamond(side, direct, <<2, 3, 4>>, FALSE).metadata
    /\ EdgesBetween(edges, N(1), N(4)) # {}
    /\ dep_kind(nodes[N(4)].weight) = "Build"

-----------------------------------------------------------------------------
(* C7: a pass of update_dep_info over a graph on which a pass has ended    *)
(* changes nothing, at any of its steps: every classification, every       *)
(* edge's kind and target flag and every visited flag stay as they were    *)
(* (snap is the graph as the earlier pass left it).                        *)
C7_SecondPassIdle ==
    (pass >= 2 /\ pc \in {"update", "propagated"}) =>
        /\ nodes = snap.nodes
        /\ edges = snap.edges
        /\ \A x \in 1 .. Len(edges) : edges[x].weight.visited

\* a second pass has ended on a graph with a classified, target-specific
\* package that has two or more incoming edges
C7_Witness ==
    /\ pass = 2
    /\ pc = "propagated"
    /\ \E n \in NonRoots :
          /\ Classified(n)
          /\ nodes[n].weight.dep_info[1].is_target_dep
          /\ Cardinality(EdgesInto(edges, n)) >= 2

-----------------------------------------------------------------------------
(* C8: over a built graph with a dependency cycle among non-member         *)
(* packages, update_dep_info ends, with every edge visited and every such  *)
(* package classified; it does not recurse until the stack is exhausted.   *)
C8_CyclicPassEnds ==
    (InPass /\ NonRootCycle) =>
        /\ pc # "overflow"
        /\ pc = "propagated" =>
            /\ \A n \in NonRoots : Classified(n)
            /\ \A x \in 1 .. Len(edges) : edges[x].weight.visited

-----------------------------------------------------------------------------
(* C9: dedup_transitive_deps examines every outgoing edge of every node,   *)
(* skipping only an edge whose target has fewer than two incoming edges,   *)
(* and removes an edge whenever its target has two or more incoming edges  *)
(* and a simple path with an intermediate node leads to the target through *)
(* nodes of the target's kind.  Removing edges only ever lowers in-degrees *)
(* and takes paths away, so no such edge is left when the reduction ends.  *)
C9_NoDominatedEdgeLeft ==
    pc = "done" =>
        \A x \in 1 .. Len(edges) :
            ~(/\ InDegree(edges, edges[x].dst) >= 2
              /\ SameKindPath(nodes, edges, edges[x].src, edges[x].dst))

-----------------------------------------------------------------------------
\* edge x of the graph the reduction started from is gone: fewer edges of
\* its source, target and weight are left than there were
Removed(x) ==
    LET same(es) == {y \in 1 .. Len(es) :
                        /\ es[y].src = snap.edges[x].src
                        /\ es[y].dst = snap.edges[x].dst
                        /\ es[y].weight = snap.edges[x].weight}
    IN  Cardinality(same(edges)) < Cardinality(same(snap.edges))

InReduction == pc \in {"dedup", "dedup_edges", "done"}

(* C10: dedup_transitive_deps removes no node and adds no edge, a node is  *)
(* reachable from another after it exactly when it was before, a removed   *)
(* edge leaves a way of two edges or more from its source to its target,   *)
(* and every non-member package stays reachable from a workspace member.   *)
C10_ReducerKeepsReach ==
    InReduction =>
        /\ [n \in 1 .. Len(nodes) |-> nodes[n].weight]
              = [n \in 1 .. Len(snap.nodes) |-> snap.nodes[n].weight]
        /\ \A y \in 1 .. Len(edges) : \E x \in 1 .. Len(snap.edges) :
              /\ edges[y].src = snap.edges[x].src
              /\ edges[y].dst = snap.edges[x].dst
              /\ edges[y].weight = snap.edges[x].weight
        /\ Len(edges) <= Len(snap.edges)
        /\ \A a \in 1 .. Len(nodes) : ReachPlus(edges, a) = ReachPlus(snap.edges, a)
        /\ \A x \in 1 .. Len(snap.edges) :
              Removed(x) =>
                  \E m \in Successors(edges, snap.edges[x].src) :
                      snap.edges[x].dst \in ReachPlus(edges, m)
        /\ \A n \in NonRoots : \E r \in 1 .. Len(nodes) :
              IsRoot(r) /\ n \in ReachPlus(edges, r)

\* the reduction has ended having removed two edges or more, one of them
\* not out of a workspace member
C10_Witness ==
    /\ pc = "done"
    /\ Len(edges) + 2 <= Len(snap.edges)
    /\ \E x \in 1 .. Len(snap.edges) : Removed(x) /\ ~IsRoot(snap.edges[x].src)

=============================================================================
